---- MODULE Spec2Model ----
(***************************************************************************)
(* Celestia data-availability adapter of the fault-proof client (hana).    *)
(*                                                                         *)
(* Spec models the verifier side: the pointer multiplexer                  *)
(* (CelestiaDADataSource), the Celestia DA source (CelestiaDASource) and   *)
(* the oracle-backed provider (OracleCelestiaProvider::blob_get) together  *)
(* with verify_data_commitment_storage.  The client runs single-threaded:  *)
(* pc is the position of the one call in progress, and its suspension      *)
(* points are the oracle hint send, the oracle get and BootInfo::load.     *)
(*                                                                         *)
(* Hashes are ideal (injective constructors); a Merkle proof is modelled   *)
(* by the one statement (root, key, leaf) its nodes authenticate.          *)
(*                                                                         *)
(* PureSpec applies the pure functions of the verifier (the storage leaf   *)
(* encoding, the Blobstream address lookup) to inputs drawn by its Init.   *)
(*                                                                         *)
(* ScanSpec models the host's find_data_commitment: the backward scan of   *)
(* the L1 logs in windows, one step per eth_getLogs call.  ScanFair adds   *)
(* that the scan, once awaited, keeps being polled.                        *)
(*                                                                         *)
(* RunSpec models the client program run (single.rs): prologue, derivation *)
(* by the driver, epilogue, one step per awaited call.                     *)
(*                                                                         *)
(* NativeSpec models the host's native mode (cfg.rs start_native): the     *)
(* preimage-server task, the client task and the host joining them.        *)
(*                                                                         *)
(* ProofSpec models the host's get_blobstream_proof: the remote calls, the *)
(* host's own verification of each part, and the bundle it returns.        *)
(***************************************************************************)
EXTENDS Integers, Sequences, FiniteSets, TLC

VARIABLES
    pc,         \* position of the call in progress, "idle" or "aborted"
    ethOpen,    \* EthereumDataSource: frames of the current block loaded
    ethData,    \* EthereumDataSource: buffered frames
    data,       \* CelestiaDASource.data
    epoch,      \* number of pipeline resets so far (ghost)
    boot,       \* BootInfo served by the oracle's local keys
    cur,        \* frame and routing of the current / last mux call
    payload,    \* <<>> or <<p>>: the payload decoded by blob_get
    oracleLog,  \* oracle traffic of the current / last blob_get
    checks,     \* verification checks evaluated by the current / last blob_get
    result,     \* result of the last CelestiaDADataSource::next
    srcCalls,   \* the last two CelestiaDASource::next calls since new / clear
    arg,        \* PureSpec: the function applied and its argument
    ret,        \* PureSpec: <<>> or <<v>>, the value the function returned
    scanPc,                 \* find_data_commitment: "off", "loop" or "done"
    celestia_height,        \* find_data_commitment: argument
    l1_head_block_number,   \* find_data_commitment: argument
    chainLogs,              \* logs of the L1 chain, in block order
    start,                  \* find_data_commitment: local
    end,                    \* find_data_commitment: local
    filters,                \* the eth_getLogs filters issued so far (ghost)
    found,                  \* what find_data_commitment returned
    runPc,          \* run: "off", the call awaited, or "done"
    runBoot,        \* run: the BootInfo the oracle holds
    safe_head,      \* run: <<>> or <<n>>, the number of the safe head header
    built,          \* run: what has been constructed for derivation (ghost)
    daCalls,        \* run: times the driver consulted the DA provider (ghost)
    output_root,    \* run: <<>> or <<r>>, the root advance_to_target derived
    runResult,      \* run: what run returned
    hostPc,         \* start_native: "off", "channels", "start_server", "join", "exited"
    serverTask,     \* the preimage-server task: "unspawned", "running", "ok", "err", "panicked"
    clientTask,     \* the client task: "unspawned", "running", "ok", "err", "panicked"
    requests,       \* oracle requests the client has written to its channel ends
    replies,        \* oracle requests the server has answered
    exitStatus,     \* <<>> or <<status>>, the exit status of the host process
    proofPc,        \* get_blobstream_proof: "off", the step awaited, "done" or "aborted"
    remote,         \* what the L1 and Celestia nodes answer (fixed for one call)
    hostChecks,     \* checks get_blobstream_proof has passed (ghost)
    proofResult     \* what get_blobstream_proof returned

clientVars == <<pc, ethOpen, ethData, data, epoch, boot, cur, payload, oracleLog,
                checks, result, srcCalls>>
pureVars == <<arg, ret>>
scanVars == <<scanPc, celestia_height, l1_head_block_number, chainLogs, start, end,
              filters, found>>
runVars == <<runPc, runBoot, safe_head, built, daCalls, output_root, runResult>>
nativeVars == <<hostPc, serverTask, clientTask, requests, replies, exitStatus>>
proofVars == <<proofPc, remote, hostChecks, proofResult>>
\* what the steps of the DA pipeline leave alone
offClient == <<proofVars, pureVars, scanVars, runVars, nativeVars>>
\* what the application of a pure function leaves alone
offPure == <<proofVars, clientVars, scanVars, runVars, nativeVars>>
\* what the scan leaves alone
offScan == <<proofVars, clientVars, pureVars, runVars, nativeVars>>
\* what run leaves alone
offRun == <<proofVars, clientVars, pureVars, scanVars, nativeVars>>
\* what the host's native mode leaves alone
offNative == <<clientVars, pureVars, scanVars, runVars, proofVars>>
\* what get_blobstream_proof leaves alone
offProof == <<clientVars, pureVars, scanVars, runVars, nativeVars>>

vars == <<clientVars, pureVars, scanVars, runVars, nativeVars, proofVars>>

-----------------------------------------------------------------------------
(* Bounds of the model *)

\* frames one L1 block loads into the Ethereum source at most
MaxBatch == 2
\* pipeline resets (clear) explored
MaxResets == 1
\* highest L2 block number of a claim or a safe head
MaxBlock == 2
\* times the driver consults the DA provider in one run at most
MaxDaCalls == 2
\* oracle requests the client task issues in native mode at most
MaxRequests == 3
\* the largest value of the unsigned words calculate_indices is explored
\* with; it stands for u64::MAX
MaxWord == 15
\* row roots of the largest data-availability header explored
MaxRowRoots == 4
\* filter ranges the deepest L1 head lies above block 0
MaxWindows == 3

-----------------------------------------------------------------------------
(* Bytes and integer conversions *)

\* the Celestia sentinel 0x0c at frame offset 2
CELESTIA_SENTINEL == 12
\* slot of the state_dataCommitments mapping
DATA_COMMITMENTS_SLOT == 254

RECURSIVE to_le_bytes(_, _)
\* u64::to_le_bytes: the n low-order bytes of v, least significant first
to_le_bytes(v, n) ==
    IF n = 0 THEN <<>> ELSE <<v % 256>> \o to_le_bytes(v \div 256, n - 1)

RECURSIVE from_le_bytes(_)
\* u64::from_le_bytes: bs[1] is the least significant byte
from_le_bytes(bs) ==
    IF bs = <<>> THEN 0 ELSE Head(bs) + 256 * from_le_bytes(Tail(bs))

RECURSIVE to_be_bytes(_, _)
\* u64::to_be_bytes: the n low-order bytes of v, most significant first
to_be_bytes(v, n) ==
    IF n = 0 THEN <<>> ELSE to_be_bytes(v \div 256, n - 1) \o <<v % 256>>

\* n copies of byte b
Repeat(b, n) == [i \in 1..n |-> b]

\* the Rust slice bs[lo..hi) with 0-based offsets
Slice(bs, lo, hi) == SubSeq(bs, lo + 1, hi)

\* ideal keccak256
keccak256(x) == <<"keccak256", x>>

-----------------------------------------------------------------------------
(* Inputs explored: pointers, frames, boot infos *)

\* (height, commitment) pairs the batcher points at
Pointers == { <<1, Repeat(170, 32)>>, <<258, Repeat(0, 31) \o <<1>> >> }

\* the 43-byte pointer frame of celestia.rs: two header bytes, the sentinel,
\* the little-endian height and the 32-byte commitment
PointerFrame(h, c) == <<1, 0, CELESTIA_SENTINEL>> \o to_le_bytes(h, 8) \o c

PointerFrames == { PointerFrame(p[1], p[2]) : p \in Pointers }

\* frames the Ethereum source can hand to the multiplexer
Frames ==
    PointerFrames
    \cup { PointerFrame(1, Repeat(170, 32)) \o <<7>> }                 \* 44 bytes
    \cup { <<1, 0>>, <<1, 0, 0>> }                                     \* short, inline
    \cup { <<1, 0, 0>> \o Repeat(9, 40) }                              \* inline, 43 bytes
    \cup { <<1, 0, CELESTIA_SENTINEL>>,                                \* sentinel only
           SubSeq(PointerFrame(258, Repeat(170, 32)), 1, 42) }         \* 42 bytes

RECURSIVE SeqsUpTo(_, _)
\* all sequences over S of length at most n
SeqsUpTo(S, n) ==
    IF n = 0 THEN { <<>> }
    ELSE LET shorter == SeqsUpTo(S, n - 1)
         IN shorter \cup { Append(q, x) : q \in shorter, x \in S }

\* frame lists one L1 block can carry
EthBatches == SeqsUpTo(Frames, MaxBatch)

\* the L1 header the trusted l1_head commits to, and a forged one
TrustedHeader == [number |-> 100, state_root |-> "stateRootL1"]
ForgedHeader  == [number |-> 100, state_root |-> "stateRootForged"]

\* Header::hash_slow: keccak256 of the RLP of the header
hash_slow(header) == keccak256(<<"rlp", header>>)

\* chain ids of the rollup configs explored: Ethereum mainnet and an unknown one
ChainIds == {1, 12345}

BootInfos == { [l1_head |-> hash_slow(TrustedHeader), l1_chain_id |-> id] : id \in ChainIds }

-----------------------------------------------------------------------------
(* Results *)

NoResult == [tag |-> "None", class |-> "", reason |-> "", bytes |-> <<>>, ep |-> 0]
\* Ok(bytes); ep is the reset epoch in which the bytes were buffered (ghost)
OkR(bytes, ep) == [tag |-> "Ok", class |-> "", reason |-> "", bytes |-> bytes, ep |-> ep]
\* Err(PipelineErrorKind::class(reason))
ErrR(class, reason) == [tag |-> "Err", class |-> class, reason |-> reason, bytes |-> <<>>, ep |-> 0]
\* the program panicked: no result is returned and the process aborts
PanicR(reason) == [tag |-> "Panic", class |-> "", reason |-> reason, bytes |-> <<>>, ep |-> 0]

NoCall == [frame |-> <<>>, routed |-> "none", height |-> 0, commitment |-> <<>>]

-----------------------------------------------------------------------------
(* Ethereum DA source (kona), as the multiplexer uses it *)

\* EthereumDataSource::next: load the block's frames unless open, then pop
\* the head or report Eof.  The set of outcomes [open, data, res].
EthereumDataSource_next(open, buffered, ep) ==
    LET loaded == IF open THEN { buffered }
                  ELSE { [i \in 1..Len(b) |-> [frame |-> b[i], ep |-> ep]] : b \in EthBatches }
    IN  { IF d = <<>>
          THEN [open |-> TRUE, data |-> <<>>, res |-> ErrR("Temporary", "Eof")]
          ELSE [open |-> TRUE, data |-> Tail(d), res |-> OkR(Head(d).frame, Head(d).ep)]
          : d \in loaded }
        \cup (IF open THEN {}
              ELSE { [open |-> FALSE, data |-> buffered,
                      res |-> ErrR("Temporary", "Provider")] })

\* EthereumDataSource::clear
EthereumDataSource_clear == <<>>

-----------------------------------------------------------------------------
(* Blobstream verifier (blobstream.rs) *)

\* alloy_rlp::encode of one value (ideal: injective)
rlp_encode(x) == <<"rlp", x>>

\* the account leaf verify_data_commitment_storage expects: encode_list over
\* the encoded nonce, balance, code hash and storage root, in the code's order
account_leaf(nonce, balance, storage_root, code_hash) ==
    <<"rlp_list", <<rlp_encode(nonce), rlp_encode(balance),
                    rlp_encode(code_hash), rlp_encode(storage_root)>> >>

\* the account leaf of the Ethereum state trie: [nonce, balance, storage_root, code_hash]
ethereum_account_leaf(nonce, balance, storage_root, code_hash) ==
    <<"rlp_list", <<rlp_encode(nonce), rlp_encode(balance),
                    rlp_encode(storage_root), rlp_encode(code_hash)>> >>

\* the storage leaf verify_data_commitment_storage expects: 0xa0 || commitment
storage_leaf(commitment) == <<160>> \o commitment

\* calculate_mapping_slot: keccak256(be32(key) || be32(slot))
calculate_mapping_slot(mapping_slot, key) ==
    keccak256(<<"be32", key, "be32", mapping_slot>>)

\* Nibbles::unpack
Nibbles_unpack(hash) == <<"nibbles", hash>>

\* alloy_trie verify_proof: the proof nodes authenticate exactly one statement
verify_proof(root, key, expected, proof) ==
    IF proof.root = root /\ proof.key = key /\ proof.leaf = expected
    THEN "Ok" ELSE "Err"

\* variant: the height is written least significant byte first
encode_data_root_tuple_little_endian(height, data_root) ==
    Repeat(0, 24) \o to_le_bytes(height, 8) \o data_root

\* encode_data_root_tuple: 24 zero bytes, the big-endian height, the data root
encode_data_root_tuple(height, data_root) ==
    Repeat(0, 24) \o to_be_bytes(height, 8) \o data_root

\* celestia_types MerkleProof::verify(leaf, root)
MerkleProof_verify(proof, leaf, root) ==
    IF proof.leaf = leaf /\ proof.root = root THEN "Ok" ELSE "Err"

\* celestia_types ShareProof::verify(data_root)
ShareProof_verify(proof, data_root) ==
    IF proof.root = data_root THEN "Ok" ELSE "Err"

\* BlobstreamChainIds::from_u64: <<variant>> for a known chain id, <<>> for None
BlobstreamChainIds_from_u64(id) ==
    CASE id = 1        -> <<"EthereumMainnet">>
      [] id = 42161    -> <<"ArbitrumOne">>
      [] id = 8453     -> <<"Base">>
      [] id = 11155111 -> <<"Sepolia">>
      [] id = 421614   -> <<"ArbitrumSepolia">>
      [] id = 84532    -> <<"BaseSepolia">>
      [] OTHER         -> <<>>

\* BlobstreamChainIds::blostream_address
blostream_address(variant) ==
    CASE variant = "EthereumMainnet" -> "0x7Cf3876F681Dbb6EdA8f6FfC45D66B996Df08fAe"
      [] variant = "ArbitrumOne"     -> "0xA83ca7775Bc2889825BcDeDfFa5b758cf69e8794"
      [] variant = "Base"            -> "0xA83ca7775Bc2889825BcDeDfFa5b758cf69e8794"
      [] variant = "Sepolia"         -> "0xF0c6429ebAB2e7DC6e05DaFB61128bE21f13cb1e"
      [] variant = "ArbitrumSepolia" -> "0xc3e209eb245Fd59c8586777b499d6A665DF3ABD2"
      [] variant = "BaseSepolia"     -> "0xc3e209eb245Fd59c8586777b499d6A665DF3ABD2"

\* blobstream_address(chain_id): the table entry, <<addr>> or <<>> for None
blobstream_address(chain_id) ==
    LET v == BlobstreamChainIds_from_u64(chain_id)
    IN  IF v = <<>> THEN <<>> ELSE << blostream_address(v[1]) >>

\* step 1 of verify_data_commitment_storage: the header hashes to the l1 head
header_matches(block_header, l1_block_hash) ==
    hash_slow(block_header) = l1_block_hash

\* variant: the account proof is checked against the state root the payload
\* carries beside the header
verify_account_carried_root(p, address) ==
    verify_proof(p.state_root,
                 Nibbles_unpack(keccak256(address)),
                 account_leaf(p.blobstream_nonce, p.blobstream_balance,
                              p.storage_root, p.blobstream_code_hash),
                 p.account_proof)

\* step 2: the account proof against the header's state root
verify_account(p, address) ==
    verify_proof(p.block_header.state_root,
                 Nibbles_unpack(keccak256(address)),
                 account_leaf(p.blobstream_nonce, p.blobstream_balance,
                              p.storage_root, p.blobstream_code_hash),
                 p.account_proof)

\* step 3: the storage proof of the commitment against the storage root
verify_storage(p) ==
    verify_proof(p.storage_root,
                 Nibbles_unpack(keccak256(
                     calculate_mapping_slot(DATA_COMMITMENTS_SLOT, p.proof_nonce))),
                 storage_leaf(p.data_commitment),
                 p.storage_proof)

\* blob_get: share_proof.verify(data_root)
verify_share(p) == ShareProof_verify(p.share_proof, p.data_root)

\* blob_get: data_root_tuple_proof.verify(encode_data_root_tuple(height, data_root),
\* data_commitment)
verify_tuple(p, height) ==
    MerkleProof_verify(p.data_root_tuple_proof,
                       encode_data_root_tuple(height, p.data_root),
                       p.data_commitment)

-----------------------------------------------------------------------------
(* Oracle payloads the host can serve *)

\* parts of a payload a prover can tamper with
Parts == {"header", "account", "storage", "share", "tuple"}

DataRootAt(h) == Repeat((h % 200) + 1, 32)
BlobOf(c) == <<222, 173, c[32]>>
DataCommitment == Repeat(204, 32)

\* the payload for (h, c) with the parts in S tampered.  leaf is the account
\* leaf the account proof authenticates.
MakePayload(h, c, S, blob, leaf) ==
    LET hdr == IF "header" \in S THEN ForgedHeader ELSE TrustedHeader
    IN  [ blob |-> blob,
          data_root |-> DataRootAt(h),
          data_commitment |-> DataCommitment,
          data_root_tuple_proof |->
              [ leaf |-> encode_data_root_tuple(IF "tuple" \in S THEN h + 1 ELSE h,
                                                DataRootAt(h)),
                root |-> DataCommitment ],
          share_proof |-> [ root |-> IF "share" \in S THEN Repeat(0, 32) ELSE DataRootAt(h) ],
          proof_nonce |-> 7,
          storage_root |-> "storageRoot",
          storage_proof |->
              [ root |-> IF "storage" \in S THEN "storageRootFlipped" ELSE "storageRoot",
                key |-> Nibbles_unpack(keccak256(
                            calculate_mapping_slot(DATA_COMMITMENTS_SLOT, 7))),
                leaf |-> storage_leaf(DataCommitment) ],
          account_proof |->
              [ root |-> IF "account" \in S THEN "stateRootFlipped" ELSE hdr.state_root,
                key |-> Nibbles_unpack(keccak256(blostream_address("EthereumMainnet"))),
                leaf |-> leaf ],
          state_root |-> hdr.state_root,
          blobstream_address |-> blostream_address("EthereumMainnet"),
          blobstream_balance |-> 0,
          blobstream_nonce |-> 1,
          blobstream_code_hash |-> "codeHash",
          block_header |-> hdr ]

CodeLeaf == account_leaf(1, 0, "storageRoot", "codeHash")
TrieLeaf == ethereum_account_leaf(1, 0, "storageRoot", "codeHash")

\* p with other values in the state root and the address it carries beside
\* the block header
Carrying(p, root, address) ==
    [p EXCEPT !.state_root = root, !.blobstream_address = address]

PayloadsFor(h, c) ==
    { MakePayload(h, c, S, BlobOf(c), CodeLeaf) : S \in SUBSET Parts }
    \cup { MakePayload(h, c, {}, <<0>>, CodeLeaf),
           MakePayload(h, c, {}, BlobOf(c), TrieLeaf),
           Carrying(MakePayload(h, c, {}, BlobOf(c), CodeLeaf),
                    "stateRootFlipped", blostream_address("EthereumMainnet")),
           Carrying(MakePayload(h, c, {}, BlobOf(c), CodeLeaf),
                    "stateRootL1", blostream_address("Sepolia")),
           Carrying(MakePayload(h, c, {"account"}, BlobOf(c), CodeLeaf),
                    "stateRootFlipped", blostream_address("Sepolia")) }

\* OraclePayload::to_bytes (bincode)
to_bytes(p) == <<"bincode", p>>

\* OraclePayload::from_bytes: <<p>> for Ok(p), <<>> for a decoding error
from_bytes(bytes) == IF bytes[1] = "bincode" THEN << bytes[2] >> ELSE <<>>

\* preimages the host can answer the get for (h, c) with
OracleResponses(h, c) ==
    { <<"truncated", 0>> } \cup { to_bytes(p) : p \in PayloadsFor(h, c) }

-----------------------------------------------------------------------------
(* Celestia DA source (source.rs) *)

ErrorClasses == {"Temporary", "Reset", "Critical"}

\* CelestiaDASource::new: the buffer starts empty
CelestiaDASource_new == <<>>

\* CelestiaDASource::clear
CelestiaDASource_clear(d) == <<>>

\* variant: the fetcher is called only when the buffer already holds a blob
load_blobs_calls_fetcher_when_buffered(d) == d /= <<>>

\* load_blobs: the fetcher is called on every call, whatever the buffer holds
load_blobs_calls_fetcher(d) == TRUE

\* variant: the fetched blob is pushed twice
load_blobs_push_twice(d, blob) == Append(Append(d, blob), blob)

\* load_blobs, Ok arm: push the fetched blob
load_blobs_push(d, blob) == Append(d, blob)

\* variant: every fetcher error is re-raised as Temporary
load_blobs_error_as_temporary(kind) ==
    CASE kind = "Critical"  -> "Temporary"
      [] kind = "Temporary" -> "Temporary"
      [] kind = "Reset"     -> "Temporary"

\* load_blobs, Err arm: the converted error is re-raised in its own class
load_blobs_error(kind) ==
    CASE kind = "Critical"  -> "Critical"
      [] kind = "Temporary" -> "Temporary"
      [] kind = "Reset"     -> "Reset"

\* variant: the head is returned but stays in the buffer
next_data_keeps_head(d) ==
    IF d = <<>>
    THEN [data |-> d, res |-> ErrR("Temporary", "Eof")]
    ELSE [data |-> d, res |-> OkR(Head(d).bytes, Head(d).ep)]

\* next_data: Eof on an empty buffer, else remove and return the head
next_data(d) ==
    IF d = <<>>
    THEN [data |-> d, res |-> ErrR("Temporary", "Eof")]
    ELSE [data |-> Tail(d), res |-> OkR(Head(d).bytes, Head(d).ep)]

\* the last two calls of CelestiaDASource::next, newest last
Remember(calls, c) ==
    IF Len(calls) < 2 THEN Append(calls, c) ELSE <<calls[2], c>>

-----------------------------------------------------------------------------
(* Pointer multiplexer (celestia.rs) *)

\* CelestiaDADataSource::next on the frame of the Ethereum source: indexing
\* pointer_data[2] and slicing [3..11], [11..43] panic on a frame too short
Route(frame) ==
    IF Len(frame) < 3 THEN "panic"
    ELSE IF frame[3] = CELESTIA_SENTINEL
         THEN IF Len(frame) < 43 THEN "panic" ELSE "celestia"
         ELSE "ethereum"

\* the height of a pointer frame: u64::from_le_bytes(pointer_data[3..11])
PointerHeight(frame) == from_le_bytes(Slice(frame, 3, 11))

\* the commitment of a pointer frame: pointer_data[11..43]
PointerCommitment(frame) == Slice(frame, 11, 43)

\* variant: only the Celestia source is cleared
CelestiaDADataSource_clear_celestia_only(d, e) ==
    [data |-> CelestiaDASource_clear(d), ethData |-> e, ethOpen |-> TRUE]

\* CelestiaDADataSource::clear: both sources are cleared
CelestiaDADataSource_clear(d, e) ==
    [data |-> CelestiaDASource_clear(d), ethData |-> EthereumDataSource_clear, ethOpen |-> FALSE]

-----------------------------------------------------------------------------
(* Host: find_data_commitment (blobstream_inclusion.rs) *)

\* block limit of one filter
FILTER_BLOCK_RANGE == 5000

\* the DataCommitmentStored logs an L1 chain may hold.  address is the
\* emitting contract, decodable whether decode_log accepts the log.
LogPool ==
    { [block |-> 0,     address |-> "blobstream", decodable |-> TRUE,
       proofNonce |-> 1, startBlock |-> 1,  endBlock |-> 5],
      [block |-> 5000,  address |-> "blobstream", decodable |-> TRUE,
       proofNonce |-> 2, startBlock |-> 5,  endBlock |-> 9],
      [block |-> 5001,  address |-> "blobstream", decodable |-> TRUE,
       proofNonce |-> 3, startBlock |-> 9,  endBlock |-> 13],
      [block |-> 7000,  address |-> "other",      decodable |-> TRUE,
       proofNonce |-> 4, startBlock |-> 1,  endBlock |-> 17],
      [block |-> 9000,  address |-> "blobstream", decodable |-> FALSE,
       proofNonce |-> 5, startBlock |-> 13, endBlock |-> 17],
      [block |-> 10001, address |-> "blobstream", decodable |-> TRUE,
       proofNonce |-> 6, startBlock |-> 1,  endBlock |-> 5] }

\* the logs of S in block order
RECURSIVE InBlockOrder(_)
InBlockOrder(S) ==
    IF S = {} THEN <<>>
    ELSE LET first == CHOOSE l \in S : \A m \in S : l.block <= m.block
         IN  <<first>> \o InBlockOrder(S \ {first})

\* L1 histories
Chains == { InBlockOrder(S) : S \in SUBSET LogPool }

\* Celestia heights looked for
CelestiaHeights == {3, 5, 10, 14}

\* variant: the subtraction without the clamp
window_start_unclamped(e) ==
    e - FILTER_BLOCK_RANGE

\* window start for a window ending at e: e - FILTER_BLOCK_RANGE, clamped to 0
window_start(e) ==
    IF e > FILTER_BLOCK_RANGE THEN e - FILTER_BLOCK_RANGE ELSE 0

\* the Filter of one iteration
Filter(from, to, address) == [from_block |-> from, to_block |-> to, address |-> address]

\* eth_provider.get_logs(&filter): the logs of the contract in the block range
get_logs(chain, filter) ==
    SelectSeq(chain, LAMBDA l : /\ filter.from_block <= l.block
                                /\ l.block <= filter.to_block
                                /\ l.address = filter.address)

\* variant: the range of a log is taken to include its endBlock
contains_height_closed_range(log, height) ==
    /\ log.decodable
    /\ log.startBlock <= height
    /\ height <= log.endBlock

\* the test of one log: it decodes and its range contains the height
contains_height(log, height) ==
    /\ log.decodable
    /\ log.startBlock <= height
    /\ height < log.endBlock

\* the for loop over the logs: <<event>> of the first log that passes, or <<>>
first_containing(logs, height) ==
    LET hits == SelectSeq(logs, LAMBDA l : contains_height(l, height))
    IN  IF hits = <<>> THEN <<>>
        ELSE << [proof_nonce |-> Head(hits).proofNonce,
                 start_block |-> Head(hits).startBlock,
                 end_block |-> Head(hits).endBlock,
                 block |-> Head(hits).block] >>

\* results of find_data_commitment
NotReturned == [tag |-> "None", event |-> <<>>, reason |-> ""]
FoundEvent(e) == [tag |-> "Ok", event |-> <<e>>, reason |-> ""]
ScanError(reason) == [tag |-> "Err", event |-> <<>>, reason |-> reason]

-----------------------------------------------------------------------------
(* Client program (single.rs) *)

\* L2 output roots
Roots == {"rootA", "rootB", "rootC"}

\* BootInfo as far as run reads it
RunBootInfos ==
    [agreed_l2_output_root : Roots, claimed_l2_output_root : Roots,
     claimed_l2_block_number : 0..MaxBlock]

\* results of run
NotRun == [tag |-> "None", error |-> "", computed |-> "", claimed |-> ""]
RunOk == [tag |-> "Ok", error |-> "", computed |-> "", claimed |-> ""]
\* Err(FaultProofProgramError::InvalidClaim(computed, claimed))
InvalidClaim(computed, claimed) ==
    [tag |-> "Err", error |-> "InvalidClaim", computed |-> computed, claimed |-> claimed]
\* Err of an awaited call, passed on by `?` or wrapped as OracleProviderError
RunFailed(call) == [tag |-> "Err", error |-> call, computed |-> "", claimed |-> ""]

\* variant: trace extension is tested before the block numbers
prologue_trace_extension_first(b, safe_head_number) ==
    IF b.agreed_l2_output_root = b.claimed_l2_output_root
    THEN <<RunOk>>
    ELSE IF b.claimed_l2_block_number < safe_head_number
    THEN <<InvalidClaim(b.agreed_l2_output_root, b.claimed_l2_output_root)>>
    ELSE <<>>

\* variant: no trace extension test
prologue_without_trace_extension(b, safe_head_number) ==
    IF b.claimed_l2_block_number < safe_head_number
    THEN <<InvalidClaim(b.agreed_l2_output_root, b.claimed_l2_output_root)>>
    ELSE <<>>

\* the two early returns of the prologue: <<result>>, or <<>> to go on to
\* derivation
prologue(b, safe_head_number) ==
    IF b.claimed_l2_block_number < safe_head_number
    THEN <<InvalidClaim(b.agreed_l2_output_root, b.claimed_l2_output_root)>>
    ELSE IF b.agreed_l2_output_root = b.claimed_l2_output_root
    THEN <<RunOk>>
    ELSE <<>>

\* variant: the derived root is not compared with the claim
epilogue_unchecked(root, b) ==
    RunOk

\* the epilogue: the derived output root against the claimed one
epilogue(root, b) ==
    IF root # b.claimed_l2_output_root
    THEN InvalidClaim(root, b.claimed_l2_output_root)
    ELSE RunOk

-----------------------------------------------------------------------------
(* Host: get_blobstream_proof (blobstream_inclusion.rs) *)

\* the answers of the remote nodes: the parts of the bundle they got wrong,
\* the chain id of the L1 node, the address in its eth_getProof response
NoRemote == [tampered |-> {}, chain_id |-> 0, response_address |-> ""]
Remotes ==
    [tampered : SUBSET Parts, chain_id : ChainIds,
     response_address : {"0x7Cf3876F681Dbb6EdA8f6FfC45D66B996Df08fAe",
                         "0xA83ca7775Bc2889825BcDeDfFa5b758cf69e8794"}]

\* height and commitment of the blob the proof is generated for
ProofHeight == 1
ProofCommitment == Repeat(170, 32)

\* the bundle the remote answers add up to
Bundle(r) ==
    MakePayload(ProofHeight, ProofCommitment, r.tampered, BlobOf(ProofCommitment), CodeLeaf)

\* results of get_blobstream_proof
NoProof == [tag |-> "None", reason |-> "", proof |-> <<>>]
ProofOk(p) == [tag |-> "Ok", reason |-> "", proof |-> <<p>>]
ProofErr(reason) == [tag |-> "Err", reason |-> reason, proof |-> <<>>]
ProofPanic(reason) == [tag |-> "Panic", reason |-> reason, proof |-> <<>>]

\* variant: the address of the response is not compared
address_matches_any(response_address, address) ==
    TRUE

\* ensure!(proof_response.address == blobstream_address, ..)
address_matches(response_address, address) ==
    response_address = address

-----------------------------------------------------------------------------
(* The state machine *)

\* the 40-byte hint body and key preimage of blob_get
Encoded == to_le_bytes(cur.height, 8) \o cur.commitment

\* the call in progress returns res to the driver
Return(res) ==
    /\ result' = res
    /\ pc' = "idle"

\* the call in progress panics: the process aborts
Panic(reason) ==
    /\ result' = PanicR(reason)
    /\ pc' = "aborted"

\* blob_get returns Err: load_blobs converts it with e.into() (the conversion
\* belongs to the error type, so any class can come out), re-raises it in
\* that class, next and the multiplexer pass it on with `?`; nothing is pushed
FailFetch(reason) ==
    \E kind \in ErrorClasses :
        /\ Return(ErrR(load_blobs_error(kind), reason))
        /\ srcCalls' = [srcCalls EXCEPT ![Len(srcCalls)].failed = kind]
        /\ UNCHANGED data

\* no pure function is being applied
NoArg == [fn |-> "none"]

PureIdle ==
    /\ arg = NoArg
    /\ ret = <<>>

\* find_data_commitment has not been called
ScanIdle ==
    /\ scanPc = "off"
    /\ celestia_height = 0
    /\ l1_head_block_number = 0
    /\ chainLogs = <<>>
    /\ start = 0
    /\ end = 0
    /\ filters = <<>>
    /\ found = NotReturned

\* run has not been called
RunIdle ==
    /\ runPc = "off"
    /\ runBoot = [agreed_l2_output_root |-> "rootA", claimed_l2_output_root |-> "rootA",
                  claimed_l2_block_number |-> 0]
    /\ safe_head = <<>>
    /\ built = {}
    /\ daCalls = 0
    /\ output_root = <<>>
    /\ runResult = NotRun

\* the host has not been started in native mode
NativeIdle ==
    /\ hostPc = "off"
    /\ serverTask = "unspawned"
    /\ clientTask = "unspawned"
    /\ requests = 0
    /\ replies = 0
    /\ exitStatus = <<>>

\* get_blobstream_proof has not been called
ProofIdle ==
    /\ proofPc = "off"
    /\ remote = NoRemote
    /\ hostChecks = <<>>
    /\ proofResult = NoProof

ClientInit ==
    /\ pc = "idle"
    /\ ethOpen = FALSE
    /\ ethData = <<>>
    /\ data = CelestiaDASource_new
    /\ epoch = 0
    /\ boot \in BootInfos
    /\ cur = NoCall
    /\ payload = <<>>
    /\ oracleLog = <<>>
    /\ checks = <<>>
    /\ result = NoResult
    /\ srcCalls = <<>>

Init ==
    /\ ClientInit
    /\ PureIdle
    /\ ScanIdle
    /\ RunIdle
    /\ NativeIdle
    /\ ProofIdle

\* CelestiaDADataSource::next up to the first suspension point of blob_get
MuxNext ==
    /\ pc = "idle"
    /\ payload' = <<>>
    /\ oracleLog' = <<>>
    /\ checks' = <<>>
    /\ UNCHANGED <<epoch, boot>>
    /\ \E out \in EthereumDataSource_next(ethOpen, ethData, epoch) :
        /\ ethOpen' = out.open
        /\ ethData' = out.data
        /\ IF out.res.tag = "Err"
           THEN /\ Return(out.res)
                /\ cur' = NoCall
                /\ UNCHANGED <<data, srcCalls>>
           ELSE LET f == out.res.bytes
                    r == Route(f)
                IN  CASE r = "panic" ->
                           /\ Panic("index out of range")
                           /\ cur' = [NoCall EXCEPT !.frame = <<f>>]
                           /\ UNCHANGED <<data, srcCalls>>
                      [] r = "ethereum" ->
                           /\ Return(out.res)
                           /\ cur' = [NoCall EXCEPT !.frame = <<f>>, !.routed = "ethereum"]
                           /\ UNCHANGED <<data, srcCalls>>
                      [] r = "celestia" ->
                           /\ cur' = [frame |-> <<f>>, routed |-> "celestia",
                                      height |-> PointerHeight(f),
                                      commitment |-> PointerCommitment(f)]
                           /\ result' = NoResult
                           /\ srcCalls' = Remember(srcCalls,
                                  [height |-> PointerHeight(f),
                                   commitment |-> PointerCommitment(f),
                                   entry |-> Len(data),
                                   served |-> FALSE,
                                   failed |-> "",
                                   fetches |-> IF load_blobs_calls_fetcher(data)
                                               THEN 1 ELSE 0])
                           /\ pc' = IF load_blobs_calls_fetcher(data)
                                    THEN "hint" ELSE "next_data"
                           /\ UNCHANGED data
    /\ UNCHANGED offClient

\* variant: the result of hint.send is dropped and the get is issued anyway
HintSend_unacknowledged ==
    /\ pc = "hint"
    /\ \E acked \in BOOLEAN :
        oracleLog' = Append(oracleLog,
            [op |-> "hint", tag |-> "CelestiaDA", body |-> Encoded, done |-> acked])
    /\ pc' = "get"
    /\ UNCHANGED <<ethOpen, ethData, data, epoch, boot, cur, payload, checks, result,
                   srcCalls>>
    /\ UNCHANGED offClient

\* blob_get: hint.send(oracle).await?
HintSend ==
    /\ pc = "hint"
    /\ \E acked \in BOOLEAN :
        /\ oracleLog' = Append(oracleLog,
               [op |-> "hint", tag |-> "CelestiaDA", body |-> Encoded, done |-> acked])
        /\ IF acked
           THEN pc' = "get" /\ UNCHANGED <<result, data, srcCalls>>
           ELSE FailFetch("hint")
    /\ UNCHANGED <<ethOpen, ethData, epoch, boot, cur, payload, checks>>
    /\ UNCHANGED offClient

\* blob_get: oracle.get(key).await?, then OraclePayload::from_bytes(..).expect(..)
OracleGet ==
    /\ pc = "get"
    /\ \E answered \in BOOLEAN :
        /\ oracleLog' = Append(oracleLog,
               [op |-> "get", tag |-> "GlobalGeneric", body |-> keccak256(Encoded),
                done |-> answered])
        /\ IF answered
           THEN \E bytes \in OracleResponses(cur.height, cur.commitment) :
                    LET decoded == from_bytes(bytes)
                    IN  IF decoded = <<>>
                        THEN /\ Panic("Failed to deserialize Celestia Oracle Payload")
                             /\ UNCHANGED <<payload, data, srcCalls>>
                        ELSE /\ payload' = decoded
                             /\ pc' = "boot"
                             /\ UNCHANGED <<result, data, srcCalls>>
           ELSE FailFetch("get") /\ UNCHANGED payload
    /\ UNCHANGED <<ethOpen, ethData, epoch, boot, cur, checks>>
    /\ UNCHANGED offClient

\* blob_get: BootInfo::load(oracle).await?, reading the oracle's local keys
BootLoad ==
    /\ pc = "boot"
    /\ \E loaded \in BOOLEAN :
        /\ oracleLog' = Append(oracleLog,
               [op |-> "get", tag |-> "Local", body |-> <<"boot">>, done |-> loaded])
        /\ IF loaded
           THEN pc' = "addr" /\ UNCHANGED <<result, data, srcCalls>>
           ELSE FailFetch("boot")
    /\ UNCHANGED <<ethOpen, ethData, epoch, boot, cur, payload, checks>>
    /\ UNCHANGED offClient

\* blob_get: blobstream_address(boot.rollup_config.l1_chain_id).expect(..)
ResolveAddress ==
    /\ pc = "addr"
    /\ IF blobstream_address(boot.l1_chain_id) = <<>>
       THEN Panic("No canonical Blobstream address found for chain id")
       ELSE pc' = "header" /\ UNCHANGED result
    /\ UNCHANGED <<ethOpen, ethData, data, epoch, boot, cur, payload, oracleLog,
                   checks, srcCalls>>
    /\ UNCHANGED offClient

\* verify_data_commitment_storage: assert!(block_hash == l1_block_hash)
CheckHeader ==
    /\ pc = "header"
    /\ checks' = Append(checks, "header")
    /\ IF header_matches(payload[1].block_header, boot.l1_head)
       THEN pc' = "account" /\ UNCHANGED result
       ELSE Panic("computed block hash must match host l1 head")
    /\ UNCHANGED <<ethOpen, ethData, data, epoch, boot, cur, payload, oracleLog, srcCalls>>
    /\ UNCHANGED offClient

\* variant: a failed account proof does not end the call
CheckAccount_deferred ==
    /\ pc = "account"
    /\ checks' = Append(checks, "account")
    /\ pc' = "storage"
    /\ UNCHANGED <<ethOpen, ethData, data, epoch, boot, cur, payload, oracleLog, result,
                   srcCalls>>
    /\ UNCHANGED offClient

\* verify_data_commitment_storage: verify_proof of the account leaf, `?`
CheckAccount ==
    /\ pc = "account"
    /\ checks' = Append(checks, "account")
    /\ IF verify_account(payload[1], blobstream_address(boot.l1_chain_id)[1]) = "Ok"
       THEN pc' = "storage" /\ UNCHANGED <<result, data, srcCalls>>
       ELSE FailFetch("account proof")
    /\ UNCHANGED <<ethOpen, ethData, epoch, boot, cur, payload, oracleLog>>
    /\ UNCHANGED offClient

\* variant: the result of the storage verify_proof is dropped
CheckStorage_unchecked ==
    /\ pc = "storage"
    /\ checks' = Append(checks, "storage")
    /\ pc' = "share"
    /\ UNCHANGED <<ethOpen, ethData, data, epoch, boot, cur, payload, oracleLog, result,
                   srcCalls>>
    /\ UNCHANGED offClient

\* verify_data_commitment_storage: verify_proof of the storage leaf, `?`
CheckStorage ==
    /\ pc = "storage"
    /\ checks' = Append(checks, "storage")
    /\ IF verify_storage(payload[1]) = "Ok"
       THEN pc' = "share" /\ UNCHANGED <<result, data, srcCalls>>
       ELSE FailFetch("storage proof")
    /\ UNCHANGED <<ethOpen, ethData, epoch, boot, cur, payload, oracleLog>>
    /\ UNCHANGED offClient

\* blob_get: share_proof.verify(data_root)
CheckShare ==
    /\ pc = "share"
    /\ checks' = Append(checks, "share")
    /\ IF verify_share(payload[1]) = "Ok"
       THEN pc' = "tuple" /\ UNCHANGED <<result, data, srcCalls>>
       ELSE FailFetch("share proof")
    /\ UNCHANGED <<ethOpen, ethData, epoch, boot, cur, payload, oracleLog>>
    /\ UNCHANGED offClient

\* blob_get: data_root_tuple_proof.verify(..); on success Ok(payload.blob),
\* which load_blobs pushes
CheckTuple ==
    /\ pc = "tuple"
    /\ checks' = Append(checks, "tuple")
    /\ IF verify_tuple(payload[1], cur.height) = "Ok"
       THEN /\ data' = load_blobs_push(data, [bytes |-> payload[1].blob, ep |-> epoch])
            /\ pc' = "next_data"
            /\ UNCHANGED <<result, srcCalls>>
       ELSE FailFetch("data root tuple proof")
    /\ UNCHANGED <<ethOpen, ethData, epoch, boot, cur, payload, oracleLog>>
    /\ UNCHANGED offClient

\* CelestiaDASource::next after load_blobs: next_data, then the result goes
\* back through the multiplexer
NextData ==
    /\ pc = "next_data"
    /\ LET nd == next_data(data)
       IN  /\ data' = nd.data
           /\ Return(nd.res)
           /\ srcCalls' = [srcCalls EXCEPT ![Len(srcCalls)].served = (nd.res.tag = "Ok")]
    /\ UNCHANGED <<ethOpen, ethData, epoch, boot, cur, payload, oracleLog, checks>>
    /\ UNCHANGED offClient

\* the driver resets the pipeline: CelestiaDADataSource::clear
Clear ==
    /\ pc = "idle"
    /\ epoch < MaxResets
    /\ LET c == CelestiaDADataSource_clear(data, ethData)
       IN  /\ data' = c.data
           /\ ethData' = c.ethData
           /\ ethOpen' = c.ethOpen
    /\ epoch' = epoch + 1
    /\ srcCalls' = <<>>
    /\ result' = [NoResult EXCEPT !.tag = "Cleared"]
    /\ cur' = NoCall
    /\ payload' = <<>>
    /\ oracleLog' = <<>>
    /\ checks' = <<>>
    /\ UNCHANGED <<pc, boot>>
    /\ UNCHANGED offClient

Next ==
    \/ MuxNext
    \/ HintSend
    \/ OracleGet
    \/ BootLoad
    \/ ResolveAddress
    \/ CheckHeader
    \/ CheckAccount
    \/ CheckStorage
    \/ CheckShare
    \/ CheckTuple
    \/ NextData
    \/ Clear

Spec == Init /\ [][Next]_vars

-----------------------------------------------------------------------------
(* Pure functions of the verifier, applied to drawn inputs *)

\* 32-byte commitments with k leading zero bytes, k in 0..32
Commitments ==
    { Repeat(0, k) \o Repeat(fill, 32 - k) : k \in 0..32, fill \in {1, 255} }

\* chain ids: those of the table, their neighbours, and other networks
LookupChainIds ==
    {0, 1, 2, 10, 8453, 8454, 17000, 42161, 84532, 421614, 534352, 11155111, 12345}

\* Celestia heights around the byte boundaries of the big-endian encoding
TupleHeights == {0, 1, 255, 256, 257, 65535, 65536, 16777216, 2147483647}

\* 32-byte data roots
TupleDataRoots == { Repeat(1, 32), Repeat(255, 32), Repeat(0, 31) \o <<1>>, Repeat(0, 32) }

\* the (height, data_root) pairs encoded
TupleInputs ==
    { [fn |-> "encode_data_root_tuple", height |-> h, data_root |-> r] :
        h \in TupleHeights, r \in TupleDataRoots }

\* unsigned addition of the word width: a build with overflow checks panics
\* on overflow, a build without them wraps
checked_or_wrapping_add(a, b) ==
    IF a + b <= MaxWord THEN { [panic |-> FALSE, value |-> a + b] }
    ELSE { [panic |-> TRUE, value |-> 0],
           [panic |-> FALSE, value |-> (a + b) % (MaxWord + 1)] }

\* calculate_indices over a header with eds_size row roots: the outcomes
\* (start_index, end_index) or a panic a build can produce
calculate_indices(eds_size, blob_index, shares_length) ==
    IF eds_size = 0
    THEN { [panic |-> TRUE, start_index |-> 0, end_index |-> 0] }
    ELSE LET ods_size == eds_size \div 2
             first_row_index == blob_index \div eds_size
             start_index == blob_index - (first_row_index * ods_size)
         IN  { [panic |-> end_index.panic,
                start_index |-> IF end_index.panic THEN 0 ELSE start_index,
                end_index |-> end_index.value] :
                   end_index \in checked_or_wrapping_add(start_index, shares_length) }

\* the headers, blob indices and share counts calculate_indices is applied to
IndexInputs ==
    { [fn |-> "calculate_indices", eds_size |-> n, blob_index |-> i, shares_length |-> l] :
        n \in 0..MaxRowRoots, i \in 0..MaxWord, l \in 0..MaxWord }

PureInit ==
    /\ ClientInit
    /\ boot.l1_chain_id = 1
    /\ ScanIdle
    /\ RunIdle
    /\ NativeIdle
    /\ ProofIdle
    /\ ret = <<>>
    /\ arg \in { [fn |-> "storage_leaf", commitment |-> c] : c \in Commitments }
              \cup { [fn |-> "blobstream_address", chain_id |-> id] : id \in LookupChainIds }
              \cup TupleInputs
              \cup IndexInputs

\* verify_data_commitment_storage builds expected_with_prefix
Apply_storage_leaf ==
    /\ arg.fn = "storage_leaf"
    /\ ret = <<>>
    /\ ret' = << storage_leaf(arg.commitment) >>
    /\ UNCHANGED <<arg, offPure>>

\* the address lookup by chain id
Apply_blobstream_address ==
    /\ arg.fn = "blobstream_address"
    /\ ret = <<>>
    /\ ret' = << blobstream_address(arg.chain_id) >>
    /\ UNCHANGED <<arg, offPure>>

\* encode_data_root_tuple(height, &data_root)
Apply_encode_data_root_tuple ==
    /\ arg.fn = "encode_data_root_tuple"
    /\ ret = <<>>
    /\ ret' = << encode_data_root_tuple(arg.height, arg.data_root) >>
    /\ UNCHANGED <<arg, offPure>>

\* calculate_indices(header.dah, blob_index, shares_len)
Apply_calculate_indices ==
    /\ arg.fn = "calculate_indices"
    /\ ret = <<>>
    /\ \E outcome \in calculate_indices(arg.eds_size, arg.blob_index, arg.shares_length) :
        ret' = << outcome >>
    /\ UNCHANGED <<arg, offPure>>

PureNext ==
    \/ Apply_storage_leaf
    \/ Apply_blobstream_address
    \/ Apply_encode_data_root_tuple
    \/ Apply_calculate_indices

PureSpec == PureInit /\ [][PureNext]_vars

-----------------------------------------------------------------------------
(* The backward scan of find_data_commitment *)

\* L1 head block numbers: below, at and above the filter range, and up to
\* MaxWindows ranges deep
HeadNumbers ==
    {0, 1, FILTER_BLOCK_RANGE - 1, FILTER_BLOCK_RANGE, FILTER_BLOCK_RANGE + 1}
    \cup { k * FILTER_BLOCK_RANGE + d : k \in 2..MaxWindows, d \in {0, 2} }

\* find_data_commitment is entered: end and start of the first window
ScanInit ==
    /\ ClientInit
    /\ boot.l1_chain_id = 1
    /\ PureIdle
    /\ RunIdle
    /\ NativeIdle
    /\ ProofIdle
    /\ scanPc = "loop"
    /\ celestia_height \in CelestiaHeights
    /\ l1_head_block_number \in HeadNumbers
    /\ chainLogs \in Chains
    /\ end = l1_head_block_number
    /\ start = window_start(l1_head_block_number)
    /\ filters = <<>>
    /\ found = NotReturned

\* one iteration of the loop: the filter, get_logs(..).await?, the for loop
\* over the logs, the stop at block 0, the move to the previous window
ScanWindow ==
    /\ scanPc = "loop"
    /\ LET filter == Filter(start, end, "blobstream")
       IN  /\ filters' = Append(filters, filter)
           /\ \E answered \in BOOLEAN :
                IF ~answered
                THEN /\ found' = ScanError("get_logs")
                     /\ scanPc' = "done"
                     /\ UNCHANGED <<start, end>>
                ELSE LET hit == first_containing(get_logs(chainLogs, filter),
                                                 celestia_height)
                     IN  IF hit # <<>>
                         THEN /\ found' = FoundEvent(hit[1])
                              /\ scanPc' = "done"
                              /\ UNCHANGED <<start, end>>
                         ELSE IF start = 0
                         THEN /\ found' = ScanError("No matching event found for the given Celestia height")
                              /\ scanPc' = "done"
                              /\ UNCHANGED <<start, end>>
                         ELSE /\ end' = start
                              /\ start' = window_start(start)
                              /\ UNCHANGED <<found, scanPc>>
    /\ UNCHANGED <<celestia_height, l1_head_block_number, chainLogs, offScan>>

ScanNext == ScanWindow

ScanSpec == ScanInit /\ [][ScanNext]_vars

\* the host awaits find_data_commitment, so the scan keeps being polled
ScanFair == ScanSpec /\ WF_vars(ScanNext)

-----------------------------------------------------------------------------
(* The client program run *)

\* run is entered; the oracle holds some boot info
RunInit ==
    /\ ClientInit
    /\ boot.l1_chain_id = 1
    /\ PureIdle
    /\ ScanIdle
    /\ NativeIdle
    /\ ProofIdle
    /\ runPc = "boot"
    /\ runBoot \in RunBootInfos
    /\ safe_head = <<>>
    /\ built = {}
    /\ daCalls = 0
    /\ output_root = <<>>
    /\ runResult = NotRun

\* run returns res
RunReturn(res) ==
    /\ runResult' = res
    /\ runPc' = "done"

\* BootInfo::load(oracle).await, Err wrapped as OracleProviderError
BootInfoLoad ==
    /\ runPc = "boot"
    /\ \E loaded \in BOOLEAN :
        IF loaded THEN runPc' = "safe_head_hash" /\ UNCHANGED runResult
        ELSE RunReturn(RunFailed("OracleProviderError"))
    /\ UNCHANGED <<runBoot, safe_head, built, daCalls, output_root, offRun>>

\* fetch_safe_head_hash(oracle, boot.agreed_l2_output_root).await?
FetchSafeHeadHash ==
    /\ runPc = "safe_head_hash"
    /\ \E fetched \in BOOLEAN :
        IF fetched THEN runPc' = "safe_head" /\ UNCHANGED runResult
        ELSE RunReturn(RunFailed("fetch_safe_head_hash"))
    /\ UNCHANGED <<runBoot, safe_head, built, daCalls, output_root, offRun>>

\* l2_provider.header_by_hash(safe_head_hash)?, then the two early returns
\* of the prologue
SafeHeadChecks ==
    /\ runPc = "safe_head"
    /\ \/ /\ RunReturn(RunFailed("header_by_hash"))
          /\ UNCHANGED safe_head
       \/ \E number \in 0..MaxBlock :
            /\ safe_head' = <<number>>
            /\ LET early == prologue(runBoot, number)
               IN  IF early # <<>>
                   THEN RunReturn(early[1])
                   ELSE runPc' = "cursor" /\ UNCHANGED runResult
    /\ UNCHANGED <<runBoot, built, daCalls, output_root, offRun>>

\* new_oracle_pipeline_cursor(..).await?
NewCursor ==
    /\ runPc = "cursor"
    /\ \E made \in BOOLEAN :
        IF made
        THEN /\ built' = built \cup {"cursor"}
             /\ runPc' = "pipeline"
             /\ UNCHANGED runResult
        ELSE /\ RunReturn(RunFailed("new_oracle_pipeline_cursor"))
             /\ UNCHANGED built
    /\ UNCHANGED <<runBoot, safe_head, daCalls, output_root, offRun>>

\* the DA provider, OraclePipeline::new(..).await?, the executor, the driver
NewPipeline ==
    /\ runPc = "pipeline"
    /\ \E made \in BOOLEAN :
        IF made
        THEN /\ built' = built \cup {"da_provider", "pipeline", "executor", "driver"}
             /\ runPc' = "advance"
             /\ UNCHANGED runResult
        ELSE /\ built' = built \cup {"da_provider"}
             /\ RunReturn(RunFailed("OraclePipeline::new"))
    /\ UNCHANGED <<runBoot, safe_head, daCalls, output_root, offRun>>

\* inside driver.advance_to_target: the pipeline asks the DA provider for data
DriverConsultsDA ==
    /\ runPc = "advance"
    /\ daCalls < MaxDaCalls
    /\ daCalls' = daCalls + 1
    /\ UNCHANGED <<runPc, runBoot, safe_head, built, output_root, runResult, offRun>>

\* driver.advance_to_target(..).await? returns, then the epilogue
AdvanceToTarget ==
    /\ runPc = "advance"
    /\ \/ /\ RunReturn(RunFailed("advance_to_target"))
          /\ UNCHANGED output_root
       \/ \E root \in Roots :
            /\ output_root' = <<root>>
            /\ RunReturn(epilogue(root, runBoot))
    /\ UNCHANGED <<runBoot, safe_head, built, daCalls, offRun>>

RunNext ==
    \/ BootInfoLoad
    \/ FetchSafeHeadHash
    \/ SafeHeadChecks
    \/ NewCursor
    \/ NewPipeline
    \/ DriverConsultsDA
    \/ AdvanceToTarget

RunSpec == RunInit /\ [][RunNext]_vars

-----------------------------------------------------------------------------
(* The host in native mode (cfg.rs) *)

\* a task has ended, by returning or by panicking
Ended(task) == task \in {"ok", "err", "panicked"}

\* tokio::try_join!(server_task, client_task) over the two JoinHandles: a
\* JoinError (a panicked task) ends the join at once; a task that returned,
\* with Ok or with Err, is an Ok(value) of its handle, and the join goes on
\* waiting for the other handle
try_join(server, client) ==
    IF server = "panicked" \/ client = "panicked" THEN "JoinError"
    ELSE IF server \in {"ok", "err"} /\ client \in {"ok", "err"} THEN "Joined"
    ELSE "Pending"

\* client_result.is_err() as i32
exit_code(client) == IF client = "err" THEN 1 ELSE 0

\* start_native is entered
NativeInit ==
    /\ ClientInit
    /\ boot.l1_chain_id = 1
    /\ PureIdle
    /\ ScanIdle
    /\ RunIdle
    /\ ProofIdle
    /\ hostPc = "channels"
    /\ serverTask = "unspawned"
    /\ clientTask = "unspawned"
    /\ requests = 0
    /\ replies = 0
    /\ exitStatus = <<>>

\* start_native returns Err: main returns it and the process exits with 1
HostFails ==
    /\ hostPc' = "exited"
    /\ exitStatus' = <<1>>

\* BidirectionalChannel::new()? twice
NewChannels ==
    /\ hostPc = "channels"
    /\ \E made \in BOOLEAN :
        IF made THEN hostPc' = "start_server" /\ UNCHANGED exitStatus
        ELSE HostFails
    /\ UNCHANGED <<serverTask, clientTask, requests, replies, offNative>>

\* self.start_server(..).await?: the key-value store and the providers, then
\* the server task is spawned; back in start_native the client task is spawned
StartTasks ==
    /\ hostPc = "start_server"
    /\ \E started \in BOOLEAN :
        IF started
        THEN /\ serverTask' = "running"
             /\ clientTask' = "running"
             /\ hostPc' = "join"
             /\ UNCHANGED exitStatus
        ELSE /\ HostFails
             /\ UNCHANGED <<serverTask, clientTask>>
    /\ UNCHANGED <<requests, replies, offNative>>

\* the client task writes a hint or a get to its channel ends; with the
\* server task gone the channel is closed and run returns the error
ClientRequests ==
    /\ hostPc = "join"
    /\ clientTask = "running"
    /\ requests = replies
    /\ requests < MaxRequests
    /\ IF serverTask = "running"
       THEN requests' = requests + 1 /\ UNCHANGED clientTask
       ELSE clientTask' = "err" /\ UNCHANGED requests
    /\ UNCHANGED <<hostPc, serverTask, replies, exitStatus, offNative>>

\* the server task answers the request in flight
ServerAnswers ==
    /\ hostPc = "join"
    /\ serverTask = "running"
    /\ replies < requests
    /\ replies' = replies + 1
    /\ UNCHANGED <<hostPc, serverTask, clientTask, requests, exitStatus, offNative>>

\* PreimageServer::start ends: with an error or a panic at any time, with
\* Ok(()) once the client's channel ends are closed
ServerEnds ==
    /\ hostPc = "join"
    /\ serverTask = "running"
    /\ \E outcome \in {"ok", "err", "panicked"} :
        /\ outcome = "ok" => Ended(clientTask)
        /\ serverTask' = outcome
    /\ UNCHANGED <<hostPc, clientTask, requests, replies, exitStatus, offNative>>

\* run ends: it returns or panics between requests, and a request in flight
\* on a closed channel makes it return the error
ClientEnds ==
    /\ hostPc = "join"
    /\ clientTask = "running"
    /\ IF requests = replies
       THEN \E outcome \in {"ok", "err", "panicked"} : clientTask' = outcome
       ELSE /\ serverTask # "running"
            /\ clientTask' = "err"
    /\ UNCHANGED <<hostPc, serverTask, requests, replies, exitStatus, offNative>>

\* try_join! returns: `?` on a JoinError, else
\* std::process::exit(client_result.is_err() as i32); the exit ends both tasks
JoinReturns ==
    /\ hostPc = "join"
    /\ try_join(serverTask, clientTask) # "Pending"
    /\ hostPc' = "exited"
    /\ exitStatus' = IF try_join(serverTask, clientTask) = "JoinError"
                     THEN <<1>>
                     ELSE << exit_code(clientTask) >>
    /\ UNCHANGED <<serverTask, clientTask, requests, replies, offNative>>

NativeNext ==
    \/ NewChannels
    \/ StartTasks
    \/ ClientRequests
    \/ ServerAnswers
    \/ ServerEnds
    \/ ClientEnds
    \/ JoinReturns

NativeSpec == NativeInit /\ [][NativeNext]_vars

-----------------------------------------------------------------------------
(* Proof generation by the host: get_blobstream_proof *)

\* get_blobstream_proof is entered; the remote nodes hold their answers
ProofInit ==
    /\ ClientInit
    /\ boot.l1_chain_id = 1
    /\ PureIdle
    /\ ScanIdle
    /\ RunIdle
    /\ NativeIdle
    /\ proofPc = "l1_block"
    /\ remote \in Remotes
    /\ hostChecks = <<>>
    /\ proofResult = NoProof

\* get_blobstream_proof returns Err
ProofFails(reason) ==
    /\ proofResult' = ProofErr(reason)
    /\ proofPc' = "done"
    /\ UNCHANGED hostChecks

\* get_blobstream_proof panics
ProofAborts(reason) ==
    /\ proofResult' = ProofPanic(reason)
    /\ proofPc' = "aborted"
    /\ UNCHANGED hostChecks

\* the next step, nothing checked in this one
ProofGoes(step) ==
    /\ proofPc' = step
    /\ UNCHANGED <<proofResult, hostChecks>>

\* the next step after passing check
ProofPasses(check, step) ==
    /\ proofPc' = step
    /\ hostChecks' = Append(hostChecks, check)
    /\ UNCHANGED proofResult

\* get_block_by_hash(l1_head).await?.unwrap(), get_chain_id().await?,
\* blobstream_address(chain_id).expect(..)
FetchL1Block ==
    /\ proofPc = "l1_block"
    /\ \/ ProofFails("l1 rpc")
       \/ ProofAborts("unwrap on no block")
       \/ IF blobstream_address(remote.chain_id) = <<>>
          THEN ProofAborts("No canonical Blobstream address found for chain id")
          ELSE ProofGoes("account")
    /\ UNCHANGED <<remote, offProof>>

\* header_get_by_height, get_balance, get_code_at (bail on empty code),
\* get_transaction_count, blob.index (bail on None)
FetchAccountFields ==
    /\ proofPc = "account"
    /\ \/ \E reason \in {"rpc", "address has no code", "no blob index"} :
            ProofFails(reason)
       \/ ProofGoes("share")
    /\ UNCHANGED <<remote, offProof>>

\* share_get_range(..).await.expect(..), then share_proof.verify(data_root)
FetchShareProof ==
    /\ proofPc = "share"
    /\ \/ ProofAborts("Failed getting share proof")
       \/ IF verify_share(Bundle(remote)) = "Ok"
          THEN ProofPasses("share", "event")
          ELSE ProofFails("share proof")
    /\ UNCHANGED <<remote, offProof>>

\* find_data_commitment(..).await.unwrap()
FindEvent ==
    /\ proofPc = "event"
    /\ \/ ProofAborts("unwrap on find_data_commitment")
       \/ ProofGoes("tuple")
    /\ UNCHANGED <<remote, offProof>>

\* blobstream_get_data_root_tuple_inclusion_proof(..).await?, then
\* data_root_proof.verify(..).expect(..)
FetchTupleProof ==
    /\ proofPc = "tuple"
    /\ \/ ProofFails("celestia rpc")
       \/ IF verify_tuple(Bundle(remote), ProofHeight) = "Ok"
          THEN ProofPasses("tuple", "get_proof")
          ELSE ProofAborts("failed to verify data root tuple inclusion proof")
    /\ UNCHANGED <<remote, offProof>>

\* get_proof(blobstream_address, [slot]).await?, then the ensure! on the
\* address of the response
GetProof ==
    /\ proofPc = "get_proof"
    /\ \/ ProofFails("l1 rpc")
       \/ IF address_matches(remote.response_address,
                             blobstream_address(remote.chain_id)[1])
          THEN ProofPasses("address", "verify")
          ELSE ProofFails("storage proof address does not match blobstream address")
    /\ UNCHANGED <<remote, offProof>>

\* verify_data_commitment(..) against block_header and l1_head: the assert!
\* on the header hash, the account proof, the storage proof; Ok returns the
\* bundle
VerifyCommitment ==
    /\ proofPc = "verify"
    /\ LET p == Bundle(remote)
       IN  IF ~header_matches(p.block_header, hash_slow(TrustedHeader))
           THEN ProofAborts("computed block hash must match host l1 head")
           ELSE IF verify_account(p, blobstream_address(remote.chain_id)[1]) # "Ok"
           THEN ProofFails("account proof")
           ELSE IF verify_storage(p) # "Ok"
           THEN ProofFails("storage proof")
           ELSE /\ proofResult' = ProofOk(p)
                /\ proofPc' = "done"
                /\ hostChecks' = Append(hostChecks, "commitment")
    /\ UNCHANGED <<remote, offProof>>

ProofNext ==
    \/ FetchL1Block
    \/ FetchAccountFields
    \/ FetchShareProof
    \/ FindEvent
    \/ FetchTupleProof
    \/ GetProof
    \/ VerifyCommitment

ProofSpec == ProofInit /\ [][ProofNext]_vars

-----------------------------------------------------------------------------
(* Properties *)

Range(q) == { q[i] : i \in 1..Len(q) }

\* blob_get has returned Ok(blob) in the current / last call
BlobReturned ==
    \/ pc = "next_data"
    \/ pc = "idle" /\ cur.routed = "celestia" /\ result.tag = "Ok"

\* C1: blob_get returns Ok(blob) only if, on the decoded payload, the header
\* hashes to boot.l1_head, the account proof verifies against the header's
\* state root, the storage proof against the storage root, the share proof
\* against data_root and the data-root-tuple proof against data_commitment;
\* the bytes handed on are the payload's blob.
C1_BlobOnlyIfVerified ==
    BlobReturned =>
        /\ payload /= <<>>
        /\ hash_slow(payload[1].block_header) = boot.l1_head
        /\ blobstream_address(boot.l1_chain_id) /= <<>>
        /\ verify_account(payload[1], blobstream_address(boot.l1_chain_id)[1]) = "Ok"
        /\ verify_storage(payload[1]) = "Ok"
        /\ verify_share(payload[1]) = "Ok"
        /\ verify_tuple(payload[1], cur.height) = "Ok"
        /\ (pc = "idle" => result.bytes = payload[1].blob)

\* a blob came back from a Celestia fetch
C1_Witness ==
    pc = "idle" /\ cur.routed = "celestia" /\ result.tag = "Ok"

\* C2: every get for a GlobalGeneric (Celestia) key in a blob_get is preceded
\* by an acknowledged CelestiaDA hint whose 40-byte body is
\* LE64(height) || commitment, taken from the pointer, and whose keccak256 is
\* the key's digest.
C2_HintBeforeGet ==
    \A i \in 1..Len(oracleLog) :
        (oracleLog[i].op = "get" /\ oracleLog[i].tag = "GlobalGeneric") =>
            \E j \in 1..(i - 1) :
                /\ oracleLog[j].op = "hint"
                /\ oracleLog[j].tag = "CelestiaDA"
                /\ oracleLog[j].done
                /\ Len(oracleLog[j].body) = 40
                /\ oracleLog[j].body = Slice(cur.frame[1], 3, 43)
                /\ SubSeq(oracleLog[j].body, 9, 40) = cur.commitment
                /\ from_le_bytes(SubSeq(oracleLog[j].body, 1, 8)) = cur.height
                /\ keccak256(oracleLog[j].body) = oracleLog[i].body

\* the get for the Celestia key of a height above 255 has been issued
C2_Witness ==
    /\ cur.height > 255
    /\ \E i \in 1..Len(oracleLog) :
           oracleLog[i].op = "get" /\ oracleLog[i].tag = "GlobalGeneric"

\* the multiplexer call on a frame of the Ethereum source is over
MuxCallOver == pc \in {"idle", "aborted"} /\ cur.frame /= <<>>

\* C3: the multiplexer forwards to celestia_source.next(h, c), with h and c
\* taken from the frame, iff frame[2] = 0x0c and len(frame) >= 43; every
\* other frame, also one shorter than 3 bytes, is returned unchanged.
C3_PointerRouting ==
    MuxCallOver =>
        LET f == cur.frame[1]
        IN  IF Len(f) >= 43 /\ f[3] = CELESTIA_SENTINEL
            THEN /\ cur.routed = "celestia"
                 /\ cur.height = from_le_bytes(Slice(f, 3, 11))
                 /\ cur.commitment = Slice(f, 11, 43)
            ELSE /\ cur.routed = "ethereum"
                 /\ result.tag = "Ok"
                 /\ result.bytes = f

\* the frame carries the sentinel but is too short for a pointer
MalformedPointer(f) ==
    Len(f) >= 3 /\ f[3] = CELESTIA_SENTINEL /\ Len(f) < 43

\* C4: a frame with malformed pointer bytes makes the multiplexer return a
\* Critical pipeline error; the program does not abort and the Celestia
\* source is not called.
C4_MalformedIsCritical ==
    (MuxCallOver /\ MalformedPointer(cur.frame[1])) =>
        /\ pc = "idle"
        /\ result.tag = "Err"
        /\ result.class = "Critical"
        /\ cur.routed /= "celestia"

\* the header check of the current / last blob_get found a mismatch
HeaderMismatchFound ==
    /\ "header" \in Range(checks)
    /\ payload /= <<>>
    /\ hash_slow(payload[1].block_header) /= boot.l1_head

\* C5: on a payload whose header does not hash to boot.l1_head,
\* verify_data_commitment yields an error Result that blob_get hands to its
\* caller; neither proof is evaluated and no blob is returned.
C5_HeaderMismatchIsError ==
    HeaderMismatchFound =>
        /\ pc = "idle"
        /\ result.tag = "Err"
        /\ "account" \notin Range(checks)
        /\ "storage" \notin Range(checks)

\* boot info was loaded and the address lookup of blob_get is over
AddressLookupOver ==
    /\ \E i \in 1..Len(oracleLog) : oracleLog[i].tag = "Local" /\ oracleLog[i].done
    /\ pc /= "addr"

\* C6: with an l1_chain_id outside the Blobstream address table, blob_get
\* ends with an error result; no proof check is run and no blob is returned.
C6_UnknownChainIsError ==
    (AddressLookupOver /\ blobstream_address(boot.l1_chain_id) = <<>>) =>
        /\ pc = "idle"
        /\ result.tag = "Err"
        /\ checks = <<>>

\* the oracle answered the get but the preimage did not decode
DecodeFailed ==
    /\ oracleLog /= <<>>
    /\ oracleLog[Len(oracleLog)].op = "get"
    /\ oracleLog[Len(oracleLog)].tag = "GlobalGeneric"
    /\ oracleLog[Len(oracleLog)].done
    /\ payload = <<>>

\* C7: an undecodable preimage makes blob_get return an error result; it does
\* not abort, loads no boot info, runs no check and returns no blob.
C7_DecodeFailureIsError ==
    DecodeFailed =>
        /\ pc = "idle"
        /\ result.tag = "Err"
        /\ \A i \in 1..Len(oracleLog) : oracleLog[i].tag /= "Local"
        /\ checks = <<>>

\* C8: whenever no call is in progress the Celestia source buffers at most
\* one blob.
C8_AtMostOneBuffered ==
    pc = "idle" => Len(data) <= 1

\* after a reset, two calls of next have completed, the last one with a blob
C8_Witness ==
    /\ pc = "idle"
    /\ epoch > 0
    /\ Len(srcCalls) = 2
    /\ result.tag = "Ok"
    /\ cur.routed = "celestia"

\* two consecutive calls of next with the same (h, c) and no clear in between
\* have both returned a blob
TwoCallsSamePointer ==
    /\ pc = "idle"
    /\ Len(srcCalls) = 2
    /\ srcCalls[1].height = srcCalls[2].height
    /\ srcCalls[1].commitment = srcCalls[2].commitment
    /\ srcCalls[1].served /\ srcCalls[2].served

C10_ClearEmptiesBoth ==
    /\ result.tag = "Cleared" => (data = <<>> /\ ethData = <<>> /\ ~ethOpen)
    /\ (pc = "idle" /\ result.tag = "Ok") => result.ep = epoch

\* a next issued after a reset returned bytes
C10_Witness ==
    pc = "idle" /\ epoch > 0 /\ result.tag = "Ok"

-----------------------------------------------------------------------------
\* the last CelestiaDASource::next call is over and its blob_get failed
FetchFailed ==
    /\ pc = "idle"
    /\ cur.routed = "celestia"
    /\ srcCalls # <<>>
    /\ srcCalls[Len(srcCalls)].failed # ""

\* C11: when blob_get fails, the call returns an error of exactly the class
\* the fetcher's error converts to, returns no bytes, and the buffer is as it
\* was when the call was entered.
C11_FetchErrorKeepsClass ==
    FetchFailed =>
        /\ result.tag = "Err"
        /\ result.class = srcCalls[Len(srcCalls)].failed
        /\ result.bytes = <<>>
        /\ Len(data) = srcCalls[Len(srcCalls)].entry
        /\ ~srcCalls[Len(srcCalls)].served

\* a failed blob_get whose error converts to Reset has been returned
C11_Witness ==
    /\ FetchFailed
    /\ srcCalls[Len(srcCalls)].failed = "Reset"
    /\ result.tag = "Err"
    /\ result.class = "Reset"

-----------------------------------------------------------------------------
\* the account proof of the payload in hand has been checked
AccountChecked ==
    /\ payload # <<>>
    /\ "account" \in Range(checks)

\* C12: the account leaf checked against block_header.state_root is the RLP
\* list of the four account fields in the order [nonce, balance, storage_root,
\* code_hash], whatever the values of the fields.
C12_AccountLeafOrder ==
    AccountChecked =>
        account_leaf(payload[1].blobstream_nonce, payload[1].blobstream_balance,
                     payload[1].storage_root, payload[1].blobstream_code_hash)
        = <<"rlp_list", <<rlp_encode(payload[1].blobstream_nonce),
                          rlp_encode(payload[1].blobstream_balance),
                          rlp_encode(payload[1].storage_root),
                          rlp_encode(payload[1].blobstream_code_hash)>> >>

-----------------------------------------------------------------------------
\* big-endian bytes without their leading zero bytes
RECURSIVE trim_leading_zeros(_)
trim_leading_zeros(bs) ==
    IF bs # <<>> /\ bs[1] = 0 THEN trim_leading_zeros(Tail(bs)) ELSE bs

\* canonical RLP of a byte string of fewer than 56 bytes
canonical_rlp(bs) ==
    IF Len(bs) = 1 /\ bs[1] < 128 THEN bs ELSE <<128 + Len(bs)>> \o bs

\* the storage leaf of a commitment has been built
StorageLeafBuilt ==
    /\ arg.fn = "storage_leaf"
    /\ ret # <<>>

\* C13: the expected storage leaf is the canonical RLP of the commitment
\* with its leading zero bytes removed: 32-k bytes under a short-string
\* header for k leading zero bytes, the single byte 0x80 for the all-zero
\* commitment.
C13_StorageLeafIsCanonicalRlp ==
    StorageLeafBuilt =>
        /\ ret[1] = canonical_rlp(trim_leading_zeros(arg.commitment))
        /\ (arg.commitment = Repeat(0, 32) => ret[1] = <<128>>)

-----------------------------------------------------------------------------
\* chain ids of Ethereum mainnet, Arbitrum One, Base, Scroll mainnet, Sepolia,
\* Arbitrum Sepolia, Base Sepolia and Holesky
CanonicalChainIds == {1, 42161, 8453, 534352, 11155111, 421614, 84532, 17000}

\* the address of a chain id has been looked up
AddressLookedUp ==
    /\ arg.fn = "blobstream_address"
    /\ ret # <<>>

\* C14: the Blobstream address lookup returns an address for each of the
\* eight canonical chain ids and None for every other chain id.
C14_LookupCoversCanonicalChains ==
    AddressLookedUp => (ret[1] # <<>> <=> arg.chain_id \in CanonicalChainIds)

-----------------------------------------------------------------------------
\* blocks a filter spans, counting from_block and to_block
BlocksSpanned(filter) == filter.to_block - filter.from_block + 1

\* C15: every filter find_data_commitment issues spans at most 5000 blocks,
\* counting every block from from_block to to_block.
C15_FilterSpansAtMostRange ==
    \A i \in 1..Len(filters) : BlocksSpanned(filters[i]) <= 5000

-----------------------------------------------------------------------------
\* the scan gave up: no window held an event for the height
NoMatchingEvent ==
    /\ scanPc = "done"
    /\ found.tag = "Err"
    /\ found.reason = "No matching event found for the given Celestia height"

\* the window start is the clamped one: never below block 0, never above end
WindowClamped ==
    /\ 0 <= start
    /\ start <= end
    /\ end <= l1_head_block_number
    /\ start = window_start(end)

\* the scan stops at the window starting at block 0 and gives up only there
StopsAtGenesis ==
    /\ (scanPc = "loop" /\ filters # <<>>) => filters[Len(filters)].from_block > 0
    /\ NoMatchingEvent => filters[Len(filters)].from_block = 0

\* C16: for every head number and log history find_data_commitment
\* terminates: the window start is clamped to zero without underflow, every
\* iteration that goes on strictly lowers the window, and after the window
\* starting at block 0 holds no matching event the scan stops with the
\* no-data-commitment error.
C16_ScanTerminates ==
    /\ [](WindowClamped /\ StopsAtGenesis)
    /\ [][scanPc' = "loop" => (end' < end /\ start' <= start)]_vars
    /\ <>(scanPc = "done")

\* a head above the filter range was scanned down to block 0 in three
\* windows, the last one clamped, and the scan gave up
C16_Witness ==
    /\ NoMatchingEvent
    /\ l1_head_block_number > FILTER_BLOCK_RANGE
    /\ Len(filters) = 3
    /\ filters[3].from_block = 0
    /\ filters[3].to_block < FILTER_BLOCK_RANGE

-----------------------------------------------------------------------------
\* DataCommitmentStored events of the Blobstream contract whose range holds
\* the height, logged in a block of [0, l1_head_block_number]
LoggedEvents ==
    { i \in 1..Len(chainLogs) :
        /\ chainLogs[i].address = "blobstream"
        /\ chainLogs[i].decodable
        /\ chainLogs[i].block <= l1_head_block_number
        /\ chainLogs[i].startBlock <= celestia_height
        /\ celestia_height < chainLogs[i].endBlock }

\* the event returned is one of the logged events and its range holds the height
ReturnedEventIsLogged ==
    /\ found.event[1].start_block <= celestia_height
    /\ celestia_height < found.event[1].end_block
    /\ \E i \in LoggedEvents :
        /\ chainLogs[i].proofNonce = found.event[1].proof_nonce
        /\ chainLogs[i].block = found.event[1].block

\* the windows issued reach from the head down to block 0 without a gap
WindowsCoverChain ==
    /\ filters # <<>>
    /\ filters[1].to_block = l1_head_block_number
    /\ filters[Len(filters)].from_block = 0
    /\ \A i \in 1..(Len(filters) - 1) : filters[i + 1].to_block >= filters[i].from_block - 1

-----------------------------------------------------------------------------
\* the safe head header is known and the claimed block lies below it
ClaimBelowSafeHead ==
    /\ safe_head # <<>>
    /\ runBoot.claimed_l2_block_number < safe_head[1]

\* nothing of the derivation was constructed and the DA provider was not asked
NoDerivation ==
    /\ built = {}
    /\ daCalls = 0
    /\ output_root = <<>>

\* C18: whenever claimed_l2_block_number < safe_head.number, run returns
\* InvalidClaim(agreed_l2_output_root, claimed_l2_output_root) without
\* building the pipeline or consulting the DA provider, also when the agreed
\* and the claimed output roots are equal.
C18_ClaimBelowSafeHeadIsInvalid ==
    ClaimBelowSafeHead =>
        /\ runPc = "done"
        /\ runResult = InvalidClaim(runBoot.agreed_l2_output_root,
                                    runBoot.claimed_l2_output_root)
        /\ NoDerivation

\* a claim below the safe head whose agreed and claimed roots are equal was
\* rejected
C18_Witness ==
    /\ ClaimBelowSafeHead
    /\ runBoot.agreed_l2_output_root = runBoot.claimed_l2_output_root
    /\ runPc = "done"
    /\ runResult.error = "InvalidClaim"

-----------------------------------------------------------------------------
\* run is over, it had read the safe head, and the boot info agrees with the claim
TraceExtensionOver ==
    /\ runPc = "done"
    /\ safe_head # <<>>
    /\ runBoot.agreed_l2_output_root = runBoot.claimed_l2_output_root

\* C19 as stated: for every boot info with agreed_l2_output_root equal to
\* claimed_l2_output_root, run returns Ok(()) and the driver never consults
\* the DA provider.
C19_TraceExtensionIsOk ==
    TraceExtensionOver => (runResult = RunOk /\ NoDerivation)

\* C19 amended: with equal roots the driver never consults the DA provider;
\* run returns Ok(()) when the claimed block is not below the safe head and
\* InvalidClaim(agreed, claimed) when it is.
C19_TraceExtensionIsOkFromSafeHead ==
    /\ (safe_head # <<>> /\ runBoot.agreed_l2_output_root = runBoot.claimed_l2_output_root)
           => (runPc = "done" /\ NoDerivation)
    /\ TraceExtensionOver =>
        /\ runBoot.claimed_l2_block_number >= safe_head[1] => runResult = RunOk
        /\ runBoot.claimed_l2_block_number < safe_head[1] =>
               runResult = InvalidClaim(runBoot.agreed_l2_output_root,
                                        runBoot.claimed_l2_output_root)

\* a trace extension at or above the safe head returned Ok(())
C19_Witness ==
    /\ TraceExtensionOver
    /\ runBoot.claimed_l2_block_number >= safe_head[1]
    /\ runResult = RunOk
    /\ NoDerivation

-----------------------------------------------------------------------------
\* advance_to_target returned a derived output root and run is over
DerivationOver ==
    /\ runPc = "done"
    /\ output_root # <<>>

\* C20: when derivation ran to the claimed block, run returns Ok(()) iff the
\* derived output root equals the claimed one, and otherwise
\* InvalidClaim(derived, claimed); so Ok(()) comes only from trace extension
\* or from a derived root equal to the claim.
C20_OkIffDerivedRootIsClaim ==
    /\ DerivationOver =>
        /\ runResult = RunOk <=> output_root[1] = runBoot.claimed_l2_output_root
        /\ output_root[1] # runBoot.claimed_l2_output_root =>
               runResult = InvalidClaim(output_root[1], runBoot.claimed_l2_output_root)
    /\ (runPc = "done" /\ runResult = RunOk) =>
        \/ /\ output_root = <<>>
           /\ runBoot.agreed_l2_output_root = runBoot.claimed_l2_output_root
           /\ daCalls = 0
        \/ /\ output_root # <<>>
           /\ output_root[1] = runBoot.claimed_l2_output_root

\* derivation consulted the DA provider and produced a root other than the
\* claim, which was rejected
C20_Witness ==
    /\ DerivationOver
    /\ daCalls > 0
    /\ output_root[1] # runBoot.claimed_l2_output_root
    /\ runResult = InvalidClaim(output_root[1], runBoot.claimed_l2_output_root)

-----------------------------------------------------------------------------
\* a task failed: it returned an error or panicked
Failed(task) == task \in {"err", "panicked"}

\* C21: in native mode, when the server task or the client task fails, the
\* host exits with a non-zero status and the other task is torn down; a
\* server task that ends with an error never leads to exit status 0 and
\* never leaves the host waiting on the client.
C21_TaskFailureExitsNonZero ==
    /\ (hostPc = "exited" /\ (Failed(serverTask) \/ Failed(clientTask)))
           => exitStatus # <<0>>
    /\ (hostPc = "join" /\ (Failed(serverTask) \/ Failed(clientTask)))
           => try_join(serverTask, clientTask) # "Pending"

-----------------------------------------------------------------------------
\* every part of the bundle the remote answers add up to verifies
BundleVerifies ==
    /\ verify_share(Bundle(remote)) = "Ok"
    /\ verify_tuple(Bundle(remote), ProofHeight) = "Ok"
    /\ blobstream_address(remote.chain_id) # <<>>
    /\ remote.response_address = blobstream_address(remote.chain_id)[1]
    /\ header_matches(Bundle(remote).block_header, hash_slow(TrustedHeader))
    /\ verify_account(Bundle(remote), blobstream_address(remote.chain_id)[1]) = "Ok"
    /\ verify_storage(Bundle(remote)) = "Ok"

\* C22: get_blobstream_proof returns Ok(BlobstreamProof) only if the host
\* has verified the share proof, the data-root-tuple proof, the address of
\* the eth_getProof response and the data commitment against the block
\* header and l1_head; when any of these fails no proof is returned.
C22_ProofOnlyIfHostVerified ==
    /\ proofResult.tag = "Ok" =>
        /\ hostChecks = <<"share", "tuple", "address", "commitment">>
        /\ BundleVerifies
        /\ proofResult.proof = << Bundle(remote) >>
    /\ (proofPc \in {"done", "aborted"} /\ ~BundleVerifies) =>
        /\ proofResult.tag \in {"Err", "Panic"}
        /\ proofResult.proof = <<>>

\* a bundle whose every part verifies was returned
C22_Witness ==
    /\ proofPc = "done"
    /\ proofResult.tag = "Ok"
    /\ proofResult.proof # <<>>
    /\ remote.tampered = {}

-----------------------------------------------------------------------------
\* the base-256 digit of v with weight 256^k
RECURSIVE byte_of(_, _)
byte_of(v, k) ==
    IF k = 0 THEN v % 256 ELSE byte_of(v \div 256, k - 1)

\* a (height, data_root) pair has been encoded
TupleEncoded ==
    /\ arg.fn = "encode_data_root_tuple"
    /\ ret # <<>>

\* C23: encode_data_root_tuple(height, data_root) is 64 bytes long, bytes
\* [0..24) are zero, bytes [24..32) are the big-endian height and bytes
\* [32..64) are the data root; distinct pairs have distinct encodings.
C23_TupleEncodingLayout ==
    TupleEncoded =>
        /\ Len(ret[1]) = 64
        /\ \A i \in 1..64 : ret[1][i] \in 0..255
        /\ Slice(ret[1], 0, 24) = Repeat(0, 24)
        /\ \A k \in 0..7 : ret[1][32 - k] = byte_of(arg.height, k)
        /\ Slice(ret[1], 32, 64) = arg.data_root
        /\ \A other \in TupleInputs :
              encode_data_root_tuple(other.height, other.data_root) = ret[1]
                  => other = arg

\* a height that fills more than one byte was encoded
C23_Witness ==
    /\ TupleEncoded
    /\ arg.height = 65536
    /\ Slice(ret[1], 24, 32) = <<0, 0, 0, 0, 0, 1, 0, 0>>

-----------------------------------------------------------------------------
\* the payload with the state root and the address it carries beside the
\* block header set to fixed values
WithoutCarriedAnchors(p) ==
    [p EXCEPT !.state_root = p.block_header.state_root,
              !.blobstream_address = blostream_address("EthereumMainnet")]

\* the first check p fails for height h under boot info b, or "Ok": the
\* header against b.l1_head, the account proof at the address of the table
\* entry of b.l1_chain_id, then the other proofs
VerdictFrom(p, b, h) ==
    IF ~header_matches(p.block_header, b.l1_head)
    THEN "computed block hash must match host l1 head"
    ELSE IF verify_account(p, blobstream_address(b.l1_chain_id)[1]) # "Ok"
    THEN "account proof"
    ELSE IF verify_storage(p) # "Ok" THEN "storage proof"
    ELSE IF verify_share(p) # "Ok" THEN "share proof"
    ELSE IF verify_tuple(p, h) # "Ok" THEN "data root tuple proof"
    ELSE "Ok"

\* a blob_get that got as far as the checks of its payload is over
PayloadJudged ==
    /\ pc \in {"idle", "aborted"}
    /\ cur.routed = "celestia"
    /\ payload # <<>>
    /\ "header" \in Range(checks)

-----------------------------------------------------------------------------
\* the checks of the verifier in the order of the code
CheckOrder == <<"header", "account", "storage", "share", "tuple">>

\* what a failure of each check is reported as
FailureOf(check) ==
    CASE check = "header"  -> "computed block hash must match host l1 head"
      [] check = "account" -> "account proof"
      [] check = "storage" -> "storage proof"
      [] check = "share"   -> "share proof"
      [] check = "tuple"   -> "data root tuple proof"

\* C25: the checks run in the order header, account proof, storage proof,
\* share proof, data-root-tuple proof in every execution; the failure
\* reported is that of the first check in this order that the payload fails,
\* and no check is run after it.
C25_FixedCheckOrder ==
    /\ checks = SubSeq(CheckOrder, 1, Len(checks))
    /\ PayloadJudged =>
        LET first == VerdictFrom(payload[1], boot, cur.height)
        IN  IF first = "Ok"
            THEN checks = CheckOrder /\ result.tag = "Ok"
            ELSE /\ result.tag \in {"Err", "Panic"}
                 /\ result.reason = first
                 /\ FailureOf(checks[Len(checks)]) = first

\* a payload failing the account proof and the share proof was rejected for
\* the account proof, and the share proof was not looked at
C25_Witness ==
    /\ PayloadJudged
    /\ verify_account(payload[1], blobstream_address(boot.l1_chain_id)[1]) # "Ok"
    /\ verify_share(payload[1]) # "Ok"
    /\ result.reason = "account proof"
    /\ checks = <<"header", "account">>

-----------------------------------------------------------------------------
\* calculate_indices has been applied
IndicesCalculated ==
    /\ arg.fn = "calculate_indices"
    /\ ret # <<>>

\* C26: for every header, blob index and shares length, calculate_indices
\* returns start = blob_index - (blob_index / eds_size) * (eds_size / 2) and
\* end = start + shares_len: no underflow, end - start = shares_len, no
\* division by zero and no overflow.
C26_IndicesTotalAndExact ==
    IndicesCalculated =>
        /\ ~ret[1].panic
        /\ arg.eds_size # 0
        /\ ret[1].start_index = arg.blob_index
                       - (arg.blob_index \div arg.eds_size) * (arg.eds_size \div 2)
        /\ ret[1].start_index >= 0
        /\ ret[1].end_index - ret[1].start_index = arg.shares_length

-----------------------------------------------------------------------------
\* the blob_get of the current / last CelestiaDASource::next returned Ok
FetchSucceeded ==
    /\ cur.routed = "celestia"
    /\ pc \in {"next_data", "idle"}
    /\ srcCalls # <<>>
    /\ srcCalls[Len(srcCalls)].failed = ""
    /\ "tuple" \in Range(checks)

\* C27: the buffer is empty when next(h, c) is entered and stays so until this
\* call's blob is pushed; a call whose fetch succeeded returns exactly the
\* bytes fetched in this call, leaves nothing behind, and never returns Eof.
C27_ServesOwnFetch ==
    /\ \A i \in 1..Len(srcCalls) : srcCalls[i].entry = 0
    /\ (cur.routed = "celestia" /\ pc \notin {"idle", "next_data", "aborted"})
           => data = <<>>
    /\ (FetchSucceeded /\ pc = "next_data")
           => data = << [bytes |-> payload[1].blob, ep |-> epoch] >>
    /\ (FetchSucceeded /\ pc = "idle")
           => /\ result = OkR(payload[1].blob, epoch)
              /\ result.reason # "Eof"
              /\ srcCalls[Len(srcCalls)].served
              /\ data = <<>>

\* two calls with different pointers have both been served, the second with
\* the blob fetched for its own pointer
C27_Witness ==
    /\ FetchSucceeded
    /\ pc = "idle"
    /\ Len(srcCalls) = 2
    /\ srcCalls[1].served
    /\ srcCalls[1].commitment # srcCalls[2].commitment
    /\ result.tag = "Ok"
    /\ result.bytes = BlobOf(cur.commitment)
    /\ result.bytes # BlobOf(srcCalls[1].commitment)

====
